---------------------------- MODULE Spec2Model ----------------------------
(***************************************************************************)
(* A model of prismic-backup (src/PrismicBackup.js): the PrismicBackup     *)
(* class with its fetch-and-persist exporters, the paginated asset lister, *)
(* the batched asset downloader with its failed-asset accumulator, and the *)
(* run() orchestrator.                                                     *)
(*                                                                         *)
(* JavaScript strings are modelled as sequences of UTF-16 code units       *)
(* (naturals), so that split, pop, decodeURIComponent and path.join are    *)
(* computed and not assumed.  An await is a point where the environment    *)
(* (network, file system) decides the outcome; the synchronous code that   *)
(* runs between two awaits is one action.                                  *)
(***************************************************************************)
EXTENDS Integers, Sequences, FiniteSets, TLC

(***************************************************************************)
(* Generic helpers on sequences.                                           *)
(***************************************************************************)
Range(s) == {s[k] : k \in 1..Len(s)}

Min(a, b) == IF a < b THEN a ELSE b

RECURSIVE Concat(_)
Concat(ss) == IF ss = <<>> THEN <<>> ELSE Head(ss) \o Concat(Tail(ss))

(***************************************************************************)
(* String.prototype.split and Array.prototype.pop as downloadAsset uses    *)
(* them.  Strings are sequences of code units: 47 is "/", 63 is "?",       *)
(* 37 is "%", 46 is ".".                                                   *)
(***************************************************************************)
\* s.split(c)[0]: the part of s before the first occurrence of c
RECURSIVE SplitFirst(_, _)
SplitFirst(s, c) ==
  IF s = <<>> \/ Head(s) = c THEN <<>>
  ELSE <<Head(s)>> \o SplitFirst(Tail(s), c)

\* s.split(c): the list of the parts of s between occurrences of c
RECURSIVE Split(_, _)
Split(s, c) ==
  LET first == SplitFirst(s, c)
  IN  IF Len(first) = Len(s) THEN <<first>>
      ELSE <<first>> \o Split(SubSeq(s, Len(first) + 2, Len(s)), c)

\* s.split(c).pop(): the part of s after the last occurrence of c
SplitPop(s, c) == LET parts == Split(s, c) IN parts[Len(parts)]

(***************************************************************************)
(* decodeURIComponent (ECMAScript Decode with an empty reserved set).      *)
(* The result is [ok |-> TRUE, val |-> decoded] or, where the built-in     *)
(* throws URIError, [ok |-> FALSE, val |-> <<>>].                          *)
(***************************************************************************)
IsHex(c) == (c \in 48..57) \/ (c \in 65..70) \/ (c \in 97..102)

HexVal(c) == IF c \in 48..57 THEN c - 48
             ELSE IF c \in 65..70 THEN c - 55
             ELSE c - 87

\* TRUE iff s holds an escape "%XY" at position k (1-based)
EscapeAt(s, k) ==
  /\ k + 2 <= Len(s)
  /\ s[k] = 37
  /\ IsHex(s[k + 1])
  /\ IsHex(s[k + 2])

ByteAt(s, k) == 16 * HexVal(s[k + 1]) + HexVal(s[k + 2])

\* the number of octets of the UTF-8 sequence a lead byte announces
\* (0: the byte cannot start a sequence)
Utf8Len(b) ==
  IF b < 128 THEN 1
  ELSE IF b \in 194..223 THEN 2
  ELSE IF b \in 224..239 THEN 3
  ELSE IF b \in 240..244 THEN 4
  ELSE 0

IsCont(b) == b \in 128..191

\* the code point of a well-formed UTF-8 octet sequence, or -1
Utf8CodePoint(o) ==
  LET n == Len(o) IN
  IF n = 1 THEN o[1]
  ELSE IF ~(\A j \in 2..n : IsCont(o[j])) THEN -1
  ELSE IF n = 2 THEN (o[1] - 192) * 64 + (o[2] - 128)
  ELSE IF n = 3 THEN
    IF (o[1] = 224 /\ o[2] < 160) \/ (o[1] = 237 /\ o[2] > 159) THEN -1
    ELSE (o[1] - 224) * 4096 + (o[2] - 128) * 64 + (o[3] - 128)
  ELSE
    IF (o[1] = 240 /\ o[2] < 144) \/ (o[1] = 244 /\ o[2] > 143) THEN -1
    ELSE (o[1] - 240) * 262144 + (o[2] - 128) * 4096
         + (o[3] - 128) * 64 + (o[4] - 128)

\* the UTF-16 code units of a code point
Utf16(v) ==
  IF v < 65536 THEN <<v>>
  ELSE <<55296 + ((v - 65536) \div 1024), 56320 + ((v - 65536) % 1024)>>

RECURSIVE Decode(_, _, _)
Decode(s, k, acc) ==
  IF k > Len(s) THEN [ok |-> TRUE, val |-> acc]
  ELSE IF s[k] # 37 THEN Decode(s, k + 1, Append(acc, s[k]))
  ELSE IF ~EscapeAt(s, k) THEN [ok |-> FALSE, val |-> <<>>]
  ELSE
    LET n == Utf8Len(ByteAt(s, k)) IN
    IF n = 0 THEN [ok |-> FALSE, val |-> <<>>]
    ELSE IF ~(\A j \in 0..(n - 1) : EscapeAt(s, k + 3 * j))
      THEN [ok |-> FALSE, val |-> <<>>]
    ELSE
      LET v == Utf8CodePoint([j \in 1..n |-> ByteAt(s, k + 3 * (j - 1))]) IN
      IF v < 0 THEN [ok |-> FALSE, val |-> <<>>]
      ELSE Decode(s, k + 3 * n, acc \o Utf16(v))

decodeURIComponent(s) == Decode(s, 1, <<>>)


(***************************************************************************)
(* path.join (POSIX): the non-empty arguments joined by "/" and            *)
(* normalised: empty and "." segments dropped, ".." removing the segment   *)
(* before it, a trailing "/" kept, "." for an empty result.                *)
(***************************************************************************)
RECURSIVE JoinWith(_, _)
JoinWith(parts, c) ==
  IF parts = <<>> THEN <<>>
  ELSE IF Len(parts) = 1 THEN parts[1]
  ELSE parts[1] \o <<c>> \o JoinWith(Tail(parts), c)

\* normalizeString of a relative path: the segments kept, in order
RECURSIVE NormalizeSegs(_, _)
NormalizeSegs(segs, acc) ==
  IF segs = <<>> THEN acc
  ELSE LET g == Head(segs) IN
    IF g = <<>> \/ g = <<46>> THEN NormalizeSegs(Tail(segs), acc)
    ELSE IF g = <<46, 46>> THEN
      IF acc # <<>> /\ acc[Len(acc)] # <<46, 46>>
      THEN NormalizeSegs(Tail(segs), SubSeq(acc, 1, Len(acc) - 1))
      ELSE NormalizeSegs(Tail(segs), Append(acc, g))
    ELSE NormalizeSegs(Tail(segs), Append(acc, g))

pathNormalize(p) ==
  IF p = <<>> THEN <<46>>
  ELSE
    LET absolute == p[1] = 47
        trailing == p[Len(p)] = 47
        segs == NormalizeSegs(Split(p, 47), <<>>)
        body == JoinWith(segs, 47)
    IN  IF absolute THEN <<47>> \o body \o (IF trailing /\ body # <<>> THEN <<47>> ELSE <<>>)
        ELSE IF body = <<>> THEN (IF trailing THEN <<46, 47>> ELSE <<46>>)
        ELSE body \o (IF trailing THEN <<47>> ELSE <<>>)

pathJoin(args) ==
  LET nonEmpty == SelectSeq(args, LAMBDA a : a # <<>>)
  IN  IF nonEmpty = <<>> THEN <<46>> ELSE pathNormalize(JoinWith(nonEmpty, 47))

\* path.dirname of a normalised relative path
pathDirname(p) ==
  LET q == IF Len(p) > 1 /\ p[Len(p)] = 47 THEN SubSeq(p, 1, Len(p) - 1) ELSE p
      segs == Split(q, 47)
  IN  IF Len(segs) = 1 THEN <<46>>
      ELSE JoinWith(SubSeq(segs, 1, Len(segs) - 1), 47)

(***************************************************************************)
(* The configuration and the paths derived from it.                        *)
(***************************************************************************)
\* config.repositoryName: "r"
repositoryName == <<114>>

\* #createExportPath(p): path.join("./", repositoryName, p)
createExportPath(p) == pathJoin(<<<<46, 47>>, repositoryName, p>>)

\* #root, set by the constructor
root == createExportPath(<<>>)

\* ASSETS_FOLDER of downloadAssets: #createExportPath("assets")
ASSETS_FOLDER == createExportPath(<<97, 115, 115, 101, 116, 115>>)

(***************************************************************************)
(* Asset descriptors: records with the two fields the code reads, url and  *)
(* filename.  The universe holds URLs that exercise downloadAsset's        *)
(* derivation of the on-disk name.                                         *)
(***************************************************************************)
\* "h/a?v": a query to strip, last segment "a"
A1 == [url |-> <<104, 47, 97, 63, 118>>, filename |-> "one.png"]
\* "h/d/%61": another directory, the last segment decodes to "a"
A2 == [url |-> <<104, 47, 100, 47, 37, 54, 49>>, filename |-> "two.png"]
\* "h/%": a malformed escape, decodeURIComponent throws URIError
A3 == [url |-> <<104, 47, 37>>, filename |-> "three.png"]
\* "h/b%20c": the last segment decodes to "b c"
A4 == [url |-> <<104, 47, 98, 37, 50, 48, 99>>, filename |-> "four.png"]

AssetUniverse == {A1, A2, A3, A4}

\* "h/p<k>": filler assets with pairwise distinct names
Pad(k) == [url |-> <<104, 47, 112, 48 + k>>, filename |-> "pad.png"]

Pads(n) == [k \in 1..n |-> Pad(k - 1)]

AllAssets == AssetUniverse \cup {Pad(k) : k \in 0..9}

(***************************************************************************)
(* Bounds of the model.                                                    *)
(***************************************************************************)
\* longest asset list a caller hands to downloadAssets
MaxLen == 2
\* most listing pages that carry a cursor
MaxPages == 1
\* most downloadAsset calls made directly on one instance
MaxDirect == 1
\* most method calls awaited one after the other on one instance
MaxCalls == 2
\* most entries #failedAssets is followed to
MaxFailed == 3

\* BATCH_SIZE of downloadAssets
BATCH_SIZE == 10

RECURSIVE SeqsUpTo(_, _)
SeqsUpTo(S, n) ==
  IF n = 0 THEN {<<>>}
  ELSE LET shorter == SeqsUpTo(S, n - 1)
       IN  shorter \cup {Append(q, x) : q \in shorter, x \in S}

\* the asset lists a caller passes to downloadAssets
AssetLists == SeqsUpTo(AssetUniverse, MaxLen)

\* lists of more than one chunk: BATCH_SIZE fillers before or after an asset
LongLists == {Pads(BATCH_SIZE) \o <<A1>>, <<A3>> \o Pads(BATCH_SIZE)}

\* the items a listing page can hold
PageItems == {<<>>, <<A1>>, <<A2>>, <<A3, A4>>}

(***************************************************************************)
(* State.                                                                  *)
(***************************************************************************)
VARIABLES
  ex,            \* the five fetch-and-persist exporters: one frame each
  exports,       \* the files they wrote: file name -> class of the content
  ls,            \* exportAssetsList: its locals, requests sent and pages received
  assetsJson,    \* assets.json: [exists, items]
  dl,            \* downloadAssets: its locals and what it logged
  task,          \* the downloadAsset promise of each asset of the list
  failedAssets,  \* #failedAssets
  failedJson,    \* failed-assets.json: [exists, items]
  assetFiles,    \* files written by downloadAsset: path -> URL fetched
  direct,        \* downloadAsset calls in flight that no chunk awaits
  run,           \* run(): its position and the promises of the five exporters
  calls          \* calls made so far on the instance

vars == <<ex, exports, ls, assetsJson, dl, task, failedAssets, failedJson,
          assetFiles, direct, run, calls>>

(***************************************************************************)
(* The five fetch-and-persist exporters.  A frame holds the position of    *)
(* one call (pc), the class of the data it read (read; data while the call *)
(* holds it), what it returned, the severities it logged and what it       *)
(* wrote.  Each method is the set of frames one step leads to: a step is   *)
(* an await settling and the code up to the next await.  The authenticated *)
(* fetch and response.json() are one read.                                 *)
(***************************************************************************)
Exporters == {"repo", "docs", "tags", "types", "slices"}

\* the file each exporter writes
ExportFile(b) ==
  CASE b = "repo"   -> "repository.json"
    [] b = "docs"   -> "documents.json"
    [] b = "tags"   -> "tags.txt"
    [] b = "types"  -> "custom-types.json"
    [] b = "slices" -> "shared-slices.json"

ExportFiles == {ExportFile(b) : b \in Exporters} \cup {"documents/"}

\* what a remote read returns: undefined or null, zero items, some items
DataClasses == {"absent", "empty", "some"}

\* a method that was never called
Idle == [pc |-> "idle", read |-> "none", data |-> "none", ret |-> "none",
         log |-> {}, wrote |-> "none", byType |-> "none"]

\* the method is called and suspends at its first await, the remote read
Called == [Idle EXCEPT !.pc = "read", !.ret = "pending"]

\* the method moves to its next await holding the data it read
Goto(f, pc, data) == [f EXCEPT !.pc = pc, !.data = data]

\* the remote read resolved with data of class c
Read(f, c) == [f EXCEPT !.read = c, !.data = c]

\* logger.warn(...); return
Warn(f) == [f EXCEPT !.pc = "done", !.data = "none", !.ret = "undefined",
                     !.log = @ \cup {"warn"}]

\* catch (error) { logger.error(...) }: the method returns undefined
Catch(f) == [f EXCEPT !.pc = "done", !.data = "none", !.ret = "undefined",
                      !.log = @ \cup {"error"}]

\* logger.info(...); return the data
Return(f) == [f EXCEPT !.pc = "done", !.data = "none", !.ret = f.data,
                       !.log = @ \cup {"info"}]

\* fs.outputJson or fs.writeFile of the exporter's file resolved
Wrote(f) == [f EXCEPT !.wrote = f.data]

\* x.length on what was read: a TypeError on undefined or null
LengthThrows(f) == f.data = "absent"

exportRepositoryDetails(f) ==
  CASE f.pc = "read" ->           \* await this.#client.getRepository()
         {Catch(f)}
         \cup {IF repo = "absent" THEN Warn(Read(f, repo))    \* if (!repo)
               ELSE Goto(Read(f, repo), "ensureDir", repo) :
                 repo \in {"absent", "some"}}
    [] f.pc = "ensureDir" ->      \* await fs.ensureDir(this.#root)
         {Catch(f), Goto(f, "write", f.data)}
    [] f.pc = "write" ->          \* await fs.outputJson(repoPath, repo)
         {Catch(f), Return(Wrote(f))}
    [] OTHER -> {}

exportDocuments(f) ==
  CASE f.pc = "read" ->           \* await this.#client.dangerouslyGetAll()
         {Catch(f)}
         \cup {\* if (allDocs && allDocs.length === 0)
               IF allDocs = "empty" THEN Warn(Read(f, allDocs))
               ELSE Goto(Read(f, allDocs), "ensureDir", allDocs) :
                 allDocs \in DataClasses}
    [] f.pc = "ensureDir" ->
         {Catch(f), Goto(f, "write", f.data)}
    [] f.pc = "write" ->          \* await fs.outputJson(docsPath, allDocs)
         {Catch(f),
          \* logger.info(`Exported ${allDocs.length} documents ...`)
          IF LengthThrows(f) THEN Catch(Wrote(f))
          ELSE [Wrote(f) EXCEPT !.pc = "byType", !.log = @ \cup {"info"}]}
    [] f.pc = "byType" ->         \* await Promise.all(... fs.outputJson(typePath, docs))
         {Catch(f), Catch([f EXCEPT !.byType = "partial"]),
          Return([f EXCEPT !.byType = "some"])}
    [] OTHER -> {}

exportTags(f) ==
  CASE f.pc = "read" ->           \* await this.#client.getTags()
         {Catch(f)}
         \cup {\* if (tags && tags.length < 1)
               IF tags = "empty" THEN Warn(Read(f, tags))
               ELSE Goto(Read(f, tags), "ensureDir", tags) : tags \in DataClasses}
    [] f.pc = "ensureDir" ->
         {Catch(f),
          \* tags.join("\n"), the argument of fs.writeFile
          IF f.data = "absent" THEN Catch(f) ELSE Goto(f, "write", f.data)}
    [] f.pc = "write" ->          \* await fs.writeFile(tagsPath, ...)
         {Catch(f), Return(Wrote(f))}
    [] OTHER -> {}

exportCustomTypes(f) ==
  CASE f.pc = "read" ->           \* fetch; if (!response.ok) throw; response.json()
         {Catch(f)}
         \cup {Goto(Read(f, customTypes), "ensureDir", customTypes) :
                 customTypes \in DataClasses}
    [] f.pc = "ensureDir" ->
         {Catch(f), Goto(f, "write", f.data)}
    [] f.pc = "write" ->          \* await fs.outputJson(assetsPath, customTypes)
         {Catch(f),
          \* logger.info(`Exported ${customTypes.length} custom types ...`)
          IF LengthThrows(f) THEN Catch(Wrote(f)) ELSE Return(Wrote(f))}
    [] OTHER -> {}

exportSharedSlices(f) ==
  CASE f.pc = "read" ->           \* fetch; if (!response.ok) throw; response.json()
         {Catch(f)}
         \cup {\* if (sharedSlices && sharedSlices.length === 0)
               IF sharedSlices = "empty" THEN Warn(Read(f, sharedSlices))
               ELSE Goto(Read(f, sharedSlices), "ensureDir", sharedSlices) :
                 sharedSlices \in DataClasses}
    [] f.pc = "ensureDir" ->
         {Catch(f), Goto(f, "write", f.data)}
    [] f.pc = "write" ->          \* await fs.outputJson(assetsPath, sharedSlices)
         {Catch(f),
          \* logger.info(`Exported ${sharedSlices.length} shared slices ...`)
          IF LengthThrows(f) THEN Catch(Wrote(f)) ELSE Return(Wrote(f))}
    [] OTHER -> {}

\* the frames one step of exporter b leads to
ExporterSteps(b, f) ==
  CASE b = "repo"   -> exportRepositoryDetails(f)
    [] b = "docs"   -> exportDocuments(f)
    [] b = "tags"   -> exportTags(f)
    [] b = "types"  -> exportCustomTypes(f)
    [] b = "slices" -> exportSharedSlices(f)

\* the frames in which a call of exporter b that is at f can end
RECURSIVE Outcomes(_, _)
Outcomes(b, f) ==
  IF f.pc = "done" THEN {f}
  ELSE UNION {Outcomes(b, g) : g \in ExporterSteps(b, f)}

\* what the exporters leave alone
assetVars == <<ls, assetsJson, dl, task, failedAssets, failedJson, assetFiles, direct>>

\* one step of an exporter that was called on its own
ExporterStep ==
  /\ \E b \in Exporters :
       \E f \in ExporterSteps(b, ex[b]) :
         /\ ex' = [ex EXCEPT ![b] = f]
         /\ exports' = [exports EXCEPT
                          ![ExportFile(b)] = IF f.wrote # "none" THEN f.wrote ELSE @,
                          !["documents/"] = IF f.byType # "none" THEN f.byType ELSE @]
  /\ UNCHANGED <<assetVars, run, calls>>

(***************************************************************************)
(* downloadAsset: the synchronous derivation of the canonical URL and of   *)
(* the on-disk name (before the try block), then fetch, arrayBuffer,       *)
(* ensureDir and writeFile (inside it).                                    *)
(***************************************************************************)
\* const assetUrl = asset.url.split("?")[0]
assetUrl(asset) == SplitFirst(asset.url, 63)

\* decodeURIComponent(assetUrl.split("/").pop()), as [ok, val]
hashedFilename(asset) == decodeURIComponent(SplitPop(assetUrl(asset), 47))

\* the derivation throws (URIError), outside the try block: the promise
\* downloadAsset returns is rejected
DerivationThrows(asset) == ~hashedFilename(asset).ok

\* path.join(dest, hashedFilename)
writePath(asset, dest) == pathJoin(<<dest, hashedFilename(asset).val>>)

\* the directories that exist once fs.ensureDir(dest) has resolved
DirsWith(dest) == {<<46>>, <<46, 46>>, pathDirname(dest), dest}

\* fs.writeFile(path) can succeed: path names no directory and lies in one
Writable(path, dest) ==
  /\ path[Len(path)] # 47
  /\ path \notin DirsWith(dest)
  /\ pathDirname(path) \in DirsWith(dest)

\* downloadAsset(asset, ASSETS_FOLDER): what its derivation yields, for every
\* asset of the model
Derived ==
  [a \in AllAssets |->
     [throws |-> DerivationThrows(a),
      path |-> writePath(a, ASSETS_FOLDER),
      writable |-> Writable(writePath(a, ASSETS_FOLDER), ASSETS_FOLDER)]]

\* fs.writeFile(path.join(dest, hashedFilename), Buffer.from(buffer)) resolved:
\* the file holds the body fetched from assetUrl
WriteAsset(files, asset) ==
  LET path == Derived[asset].path
  IN  [q \in DOMAIN files \cup {path} |->
         IF q = path THEN assetUrl(asset) ELSE files[q]]

\* catch (error) { this.#failedAssets.push(asset); ... }
PushFailed(failed, asset) == Append(failed, asset)

(***************************************************************************)
(* #logFailedAssets and the end of downloadAssets.                         *)
(***************************************************************************)
\* a downloadAssets frame that is not running
DlIdle == [pc |-> "idle", assets |-> <<>>, i |-> 0, chunks |-> 0, ret |-> "none",
           log |-> {}, logged |-> FALSE, successCount |-> 0,
           manifest |-> <<>>, manifests |-> 0, manifestFailed |-> FALSE]

\* const successCount = assets.length - this.#failedAssets.length;
\* logger.info(`Downloaded ${successCount}/${assets.length} ...`): the method
\* returns.  failed is #failedAssets as it is when the line runs.
LogSuccessCount(d, failed) ==
  [d EXCEPT !.pc = "done", !.ret = "undefined",
            !.logged = TRUE,
            !.successCount = Len(d.assets) - Len(failed),
            !.log = @ \cup {"info"}]

\* catch (error) of #logFailedAssets: the error is logged and swallowed
LogFailedAssetsCatch(d) ==
  [d EXCEPT !.log = @ \cup {"error"}, !.manifestFailed = TRUE]

\* a downloadAssets without its catch: the error of a chunk leaves the method
\* as a rejected promise.  C8_RunCompletes tells the code's catch from it.
DownloadAssetsRethrow(d) ==
  [d EXCEPT !.pc = "done", !.ret = "rejected"]

\* catch (error) of downloadAssets: the error is logged, the method returns
DownloadAssetsCatch(d) ==
  [d EXCEPT !.pc = "done", !.ret = "undefined", !.log = @ \cup {"error"}]

\* await this.#logFailedAssets(), up to its first await
logFailedAssets(d, failed) ==
  IF Len(failed) = 0 THEN LogSuccessCount(d, failed)
  ELSE [d EXCEPT !.pc = "failedEnsureDir"]

(***************************************************************************)
(* downloadAssets: the loop over the chunks.                               *)
(***************************************************************************)
\* the positions (1-based) of assets.slice(i, i + BATCH_SIZE)
Batch(assets, i) == (i + 1)..Min(i + BATCH_SIZE, Len(assets))

\* batch.map((asset) => this.downloadAsset(asset, ASSETS_FOLDER)): every
\* download of the chunk is started; one whose derivation throws is a
\* rejected promise
StartBatch(t, assets, i) ==
  [k \in DOMAIN t |->
     IF k \in Batch(assets, i)
     THEN (IF Derived[assets[k]].throws THEN "rejected" ELSE "inflight")
     ELSE t[k]]

\* Promise.all(batch...) rejects: a promise of the chunk is rejected
BatchRejects(t, assets, i) == \E k \in Batch(assets, i) : t[k] = "rejected"

\* the loop test and one pass of the body up to its await: either the next
\* chunk is started, and Promise.all rejects at once if a promise of it is
\* rejected, or the loop is over and #logFailedAssets is called
Loop(d, t, i, failed) ==
  IF i < Len(d.assets) THEN
    LET started == StartBatch(t, d.assets, i)
        entered == [d EXCEPT !.pc = "chunk", !.i = i, !.chunks = @ + 1]
    IN  [d |-> IF BatchRejects(started, d.assets, i)
               THEN DownloadAssetsCatch(entered)
               ELSE entered,
         t |-> started]
  ELSE [d |-> logFailedAssets(d, failed), t |-> t]

\* downloadAssets from the test of the list's length on
Proceed(d, assets, failed) ==
  LET d0 == [d EXCEPT !.assets = assets]
      t0 == [k \in 1..Len(assets) |-> "none"]
  IN  IF Len(assets) = 0
      THEN [d |-> [d0 EXCEPT !.pc = "done", !.ret = "undefined",
                             !.log = @ \cup {"warn"}],
            t |-> t0]
      ELSE Loop(d0, t0, 0, failed)

\* the downloads still in flight when downloadAssets is called again keep
\* running: no chunk awaits them any more
Orphans(t, assets) ==
  [a \in DOMAIN direct |->
     direct[a] + Cardinality({k \in DOMAIN t : t[k] = "inflight" /\ assets[k] = a})]

(***************************************************************************)
(* exportAssetsList: the pagination loop, then ensureDir and outputJson.   *)
(* A cursor is a positive number, the absent cursor of a last page is 0;   *)
(* the server hands out the cursor n with its n-th page.  When             *)
(* downloadAssets awaits the list, its continuation runs in the same turn  *)
(* of the event loop as the list's return.                                 *)
(***************************************************************************)
ListIdle == [pc |-> "idle", caller |-> "none", items |-> <<>>, cursor |-> 0,
             requests |-> <<>>, pages |-> <<>>, ret |-> "none", log |-> {},
             error |-> "none", wrote |-> FALSE]

\* the method is called: the first request carries no cursor parameter (0)
ListCalled(caller) ==
  [ListIdle EXCEPT !.pc = "fetch", !.caller = caller, !.ret = "pending",
                   !.requests = <<0>>]

\* a pagination loop that keeps the items of the last page alone.
\* C6_Pagination tells the code's accumulation from it.
ListPageOverwrite(l, items, cursor) ==
  LET got == [l EXCEPT !.items = items,
                       !.pages = Append(@, [items |-> items, cursor |-> cursor])]
  IN  IF cursor = 0 THEN [got EXCEPT !.pc = "ensureDir"]
      ELSE [got EXCEPT !.cursor = cursor, !.requests = Append(@, cursor)]

\* const data = await response.json(); items.push(...data.items);
\* if (!data.cursor) break; cursor = data.cursor; and the next pass up to
\* its fetch, with searchParams.set("cursor", cursor)
ListPage(l, items, cursor) ==
  LET got == [l EXCEPT !.items = @ \o items,
                       !.pages = Append(@, [items |-> items, cursor |-> cursor])]
  IN  IF cursor = 0 THEN [got EXCEPT !.pc = "ensureDir"]
      ELSE [got EXCEPT !.cursor = cursor, !.requests = Append(@, cursor)]

\* a lister that returns the items it has accumulated when a page fails.
\* C5_ListingAbortedAsAWhole tells the code's catch from it.
ListCatchPartial(l, error) ==
  [l EXCEPT !.pc = "done", !.ret = "items",
            !.log = @ \cup {"error"}, !.error = error]

\* catch (error) { logger.error(...) }: the method returns undefined; error is
\* what was thrown: "status" by the test of response.ok, "network" by fetch
\* or response.json(), "fs" by ensureDir or outputJson
ListCatch(l, error) ==
  [l EXCEPT !.pc = "done", !.ret = "undefined", !.items = <<>>,
            !.log = @ \cup {"error"}, !.error = error]

\* logger.info(...); return items
ListReturn(l) ==
  [l EXCEPT !.pc = "done", !.ret = "items", !.wrote = TRUE,
            !.log = @ \cup {"info"}]

\* assets = await this.exportAssetsList(); if (assets === undefined) return;
NoAssetsReturned(d) == [d EXCEPT !.pc = "done", !.ret = "undefined"]

\* the list returned to its caller: downloadAssets goes on with it
ListFinished(l) ==
  /\ ls' = l
  /\ IF l.caller = "downloadAssets" THEN
       IF l.ret = "undefined"
       THEN dl' = NoAssetsReturned(dl) /\ UNCHANGED task
       ELSE LET r == Proceed(dl, l.items, failedAssets)
            IN  dl' = r.d /\ task' = r.t
     ELSE UNCHANGED <<dl, task>>

listVars == <<ex, exports, failedAssets, failedJson, assetFiles, direct, run, calls>>

exportAssetsList ==
  /\ UNCHANGED listVars
  /\ \/ /\ ls.pc = "fetch"            \* response.ok, response.json() resolves
        /\ \E items \in PageItems, more \in BOOLEAN :
             /\ more => Len(ls.pages) < MaxPages
             /\ ls' = ListPage(ls, items, IF more THEN Len(ls.pages) + 1 ELSE 0)
        /\ UNCHANGED <<assetsJson, dl, task>>
     \/ /\ ls.pc = "fetch"            \* fetch or response.json() rejects
        /\ ListFinished(ListCatch(ls, "network"))
        /\ UNCHANGED assetsJson
     \/ /\ ls.pc = "fetch"            \* !response.ok: throw new Error
        /\ ListFinished(ListCatch(ls, "status"))
        /\ UNCHANGED assetsJson
     \/ /\ ls.pc = "ensureDir"        \* fs.ensureDir(root) resolves
        /\ ls' = [ls EXCEPT !.pc = "write"]
        /\ UNCHANGED <<assetsJson, dl, task>>
     \/ /\ ls.pc = "ensureDir"        \* fs.ensureDir(root) rejects
        /\ ListFinished(ListCatch(ls, "fs"))
        /\ UNCHANGED assetsJson
     \/ /\ ls.pc = "write"            \* fs.outputJson(assetsPath, items) resolves
        /\ assetsJson' = [exists |-> TRUE, items |-> ls.items]
        /\ ListFinished(ListReturn(ls))
     \/ /\ ls.pc = "write"            \* fs.outputJson(assetsPath, items) rejects
        /\ ListFinished(ListCatch(ls, "fs"))
        /\ UNCHANGED assetsJson

(***************************************************************************)
(* The downloads in flight.  A download of the chunk that downloadAssets   *)
(* awaits resumes the loop when it is the last of its chunk to settle.     *)
(***************************************************************************)
Settled(t, K) == \A k \in K : t[k] \in {"written", "failed"}

\* the promise of position k settled with status st; failed is #failedAssets
\* after it
AfterSettle(k, st, failed) ==
  LET t == [task EXCEPT ![k] = st]
  IN  IF dl.pc = "chunk" /\ Settled(t, Batch(dl.assets, dl.i))
      THEN LET r == Loop(dl, t, dl.i + BATCH_SIZE, failed)
           IN  dl' = r.d /\ task' = r.t
      ELSE dl' = dl /\ task' = t

settleVars == <<ex, exports, ls, assetsJson, failedJson, direct, run, calls>>

\* a download started by a chunk of downloadAssets settles
downloadAsset ==
  /\ UNCHANGED settleVars
  /\ \E k \in DOMAIN task :
       /\ task[k] = "inflight"
       /\ \/ /\ Derived[dl.assets[k]].writable
             /\ assetFiles' = WriteAsset(assetFiles, dl.assets[k])
             /\ UNCHANGED failedAssets                    \* writeFile resolves
             /\ AfterSettle(k, "written", failedAssets)
          \/ /\ Len(failedAssets) < MaxFailed             \* fetch rejects
             /\ failedAssets' = PushFailed(failedAssets, dl.assets[k])
             /\ UNCHANGED assetFiles
             /\ AfterSettle(k, "failed", failedAssets')
          \/ /\ Len(failedAssets) < MaxFailed             \* !response.ok
             /\ failedAssets' = PushFailed(failedAssets, dl.assets[k])
             /\ UNCHANGED assetFiles
             /\ AfterSettle(k, "failed", failedAssets')
          \/ /\ Len(failedAssets) < MaxFailed
             \* arrayBuffer, ensureDir or writeFile rejects
             /\ failedAssets' = PushFailed(failedAssets, dl.assets[k])
             /\ UNCHANGED assetFiles
             /\ AfterSettle(k, "failed", failedAssets')

\* a download no chunk awaits settles: one called by the user of the class,
\* or one left in flight by a downloadAssets that was called again
downloadAssetAlone ==
  /\ UNCHANGED <<ex, exports, ls, assetsJson, failedJson, dl, task, run, calls>>
  /\ \E a \in DOMAIN direct :
       /\ direct[a] > 0
       /\ direct' = [direct EXCEPT ![a] = @ - 1]
       /\ \/ /\ Derived[a].writable
             /\ assetFiles' = WriteAsset(assetFiles, a)
             /\ UNCHANGED failedAssets
          \/ /\ Len(failedAssets) < MaxFailed
             /\ failedAssets' = PushFailed(failedAssets, a)
             /\ UNCHANGED assetFiles

(***************************************************************************)
(* #logFailedAssets past its first await, and the end of downloadAssets.   *)
(* fs.outputJson serialises #failedAssets when it is called.               *)
(***************************************************************************)
manifestVars == <<ex, exports, ls, assetsJson, task, failedAssets, assetFiles,
                  direct, run, calls>>

writeFailedAssets ==
  /\ UNCHANGED manifestVars
  /\ \/ /\ dl.pc = "failedEnsureDir"   \* fs.ensureDir(root) resolves
        /\ dl' = [dl EXCEPT !.pc = "failedWrite", !.manifest = failedAssets]
        /\ UNCHANGED failedJson
     \/ /\ dl.pc = "failedEnsureDir"   \* fs.ensureDir(root) rejects
        /\ dl' = LogSuccessCount(LogFailedAssetsCatch(dl), failedAssets)
        /\ UNCHANGED failedJson
     \/ /\ dl.pc = "failedWrite"       \* fs.outputJson(logPath, ...) resolves
        /\ failedJson' = [exists |-> TRUE, items |-> dl.manifest]
        /\ dl' = LogSuccessCount([dl EXCEPT !.manifests = @ + 1,
                                            !.log = @ \cup {"info"}],
                                 failedAssets)
     \/ /\ dl.pc = "failedWrite"       \* fs.outputJson(logPath, ...) rejects
        /\ dl' = LogSuccessCount(LogFailedAssetsCatch(dl), failedAssets)
        /\ UNCHANGED failedJson

(***************************************************************************)
(* The calls a user of the class makes.  A user awaits each method before  *)
(* calling the next; downloadAsset calls need not be awaited.              *)
(***************************************************************************)
Quiet ==
  /\ \A b \in Exporters : ex[b].pc \in {"idle", "done"}
  /\ ls.pc \in {"idle", "done"}
  /\ dl.pc \in {"idle", "done"}
  /\ run.pc = "idle"

\* backup.downloadAssets(assets) with a list
CallDownloadAssets(lists) ==
  /\ \E assets \in lists :
       LET r == Proceed([DlIdle EXCEPT !.ret = "pending"], assets, failedAssets)
       IN  dl' = r.d /\ task' = r.t
  /\ direct' = Orphans(task, dl.assets)
  /\ calls' = [calls EXCEPT !.methods = @ + 1]
  /\ UNCHANGED <<ex, exports, ls, assetsJson, failedAssets, failedJson, assetFiles, run>>

\* downloadAssets() up to its first await: logger.info(...), then
\* assets = await this.exportAssetsList()
FetchList == [DlIdle EXCEPT !.pc = "list", !.ret = "pending", !.log = {"info"}]

\* backup.downloadAssets(): the list is fetched with exportAssetsList
CallDownloadAssetsNoList ==
  /\ dl' = FetchList
  /\ task' = <<>>
  /\ ls' = ListCalled("downloadAssets")
  /\ direct' = Orphans(task, dl.assets)
  /\ calls' = [calls EXCEPT !.methods = @ + 1]
  /\ UNCHANGED <<ex, exports, assetsJson, failedAssets, failedJson, assetFiles, run>>

\* backup.exportAssetsList()
CallExportAssetsList ==
  /\ ls' = ListCalled("api")
  /\ calls' = [calls EXCEPT !.methods = @ + 1]
  /\ UNCHANGED <<ex, exports, assetsJson, dl, task, failedAssets, failedJson,
                 assetFiles, direct, run>>

\* backup.downloadAsset(asset, ASSETS_FOLDER), not awaited: a derivation
\* that throws rejects the promise and starts nothing
CallDownloadAsset ==
  /\ calls.direct < MaxDirect
  /\ \E a \in AssetUniverse :
       direct' = IF Derived[a].throws THEN direct
                 ELSE [direct EXCEPT ![a] = @ + 1]
  /\ calls' = [calls EXCEPT !.direct = @ + 1]
  /\ UNCHANGED <<ex, exports, ls, assetsJson, dl, task, failedAssets, failedJson,
                 assetFiles, run>>

\* one of the five exporters is called
CallExporter ==
  /\ \E b \in Exporters : ex' = [ex EXCEPT ![b] = Called]
  /\ calls' = [calls EXCEPT !.methods = @ + 1]
  /\ UNCHANGED <<exports, assetVars, run>>

(***************************************************************************)
(* run(): the six methods are called in one turn of the event loop, then   *)
(* await Promise.all(tasks), then the duration is logged.  Of an exporter, *)
(* run() observes its promise alone: an exporter shares no state with the  *)
(* other branches, and its steps are taken as one.                         *)
(***************************************************************************)
PromiseOf(ret) ==
  IF ret = "pending" THEN "pending"
  ELSE IF ret = "rejected" THEN "rejected"
  ELSE "fulfilled"

\* the promises of tasks, the array run() builds
Tasks == [b \in Exporters |-> run.branch[b]] @@ ("assets" :> PromiseOf(dl.ret))

RunIdle == [pc |-> "idle", branch |-> [b \in Exporters |-> "none"]]

\* run() up to await Promise.all(tasks)
RunCalled ==
  /\ run.pc = "idle"
  /\ Quiet
  /\ calls.methods = 0
  /\ run' = [pc |-> "awaiting", branch |-> [b \in Exporters |-> "pending"]]
  /\ dl' = FetchList
  /\ task' = <<>>
  /\ ls' = ListCalled("downloadAssets")
  /\ calls' = [calls EXCEPT !.methods = @ + 1]
  /\ UNCHANGED <<ex, exports, assetsJson, failedAssets, failedJson, assetFiles, direct>>

\* an exporter called by run() runs to its end
BranchSettles ==
  /\ run.pc = "awaiting"
  /\ \E b \in Exporters :
       /\ run.branch[b] = "pending"
       /\ \E p \in {PromiseOf(f.ret) : f \in Outcomes(b, Called)} :
            run' = [run EXCEPT !.branch[b] = p]
  /\ UNCHANGED <<ex, exports, assetVars, calls>>

\* Promise.all(tasks) settles: rejected as soon as a promise is rejected,
\* fulfilled when all are; then logger.info(`Backup completed in ...`)
RunSettles ==
  /\ run.pc = "awaiting"
  /\ \/ \E b \in DOMAIN Tasks : Tasks[b] = "rejected"
     \/ \A b \in DOMAIN Tasks : Tasks[b] = "fulfilled"
  /\ run' = [run EXCEPT !.pc = IF \E b \in DOMAIN Tasks : Tasks[b] = "rejected"
                                THEN "rejected" ELSE "completed"]
  /\ UNCHANGED <<ex, exports, assetVars, calls>>

(***************************************************************************)
(* The instance after construction, and the specifications.                *)
(***************************************************************************)
Init ==
  /\ ex = [b \in Exporters |-> Idle]
  /\ exports = [f \in ExportFiles |-> "none"]
  /\ ls = ListIdle
  /\ assetsJson = [exists |-> FALSE, items |-> <<>>]
  /\ dl = DlIdle
  /\ task = <<>>
  /\ failedAssets = <<>>
  /\ failedJson = [exists |-> FALSE, items |-> <<>>]
  /\ assetFiles = <<>>
  /\ direct = [a \in AllAssets |-> 0]
  /\ run = RunIdle
  /\ calls = [methods |-> 0, direct |-> 0]

\* what the methods of the asset pipeline do once called
AssetSteps ==
  \/ exportAssetsList
  \/ downloadAsset
  \/ downloadAssetAlone
  \/ writeFailedAssets

\* Spec: one method of the asset pipeline is called on a fresh instance,
\* after direct downloadAsset calls
Next ==
  \/ Quiet /\ calls.methods = 0 /\ CallDownloadAssets(AssetLists)
  \/ Quiet /\ calls.methods = 0 /\ CallDownloadAssetsNoList
  \/ Quiet /\ calls.methods = 0 /\ CallExportAssetsList
  \/ Quiet /\ calls.methods = 0 /\ CallDownloadAsset
  \/ AssetSteps

Spec == Init /\ [][Next]_vars

\* SpecAgain: downloadAssets called again on the same instance, with direct
\* downloadAsset calls in between
NextAgain ==
  \/ Quiet /\ calls.methods < MaxCalls /\ CallDownloadAssets(AssetLists)
  \/ Quiet /\ CallDownloadAsset
  \/ downloadAsset
  \/ downloadAssetAlone
  \/ writeFailedAssets

SpecAgain == Init /\ [][NextAgain]_vars

\* SpecExport: the five exporters called one after the other
NextExport ==
  \/ Quiet /\ calls.methods < MaxCalls /\ CallExporter
  \/ ExporterStep

SpecExport == Init /\ [][NextExport]_vars

\* SpecChunks: downloadAssets called with a list of more than one chunk
NextChunks ==
  \/ Quiet /\ calls.methods = 0 /\ CallDownloadAssets(LongLists)
  \/ downloadAsset
  \/ writeFailedAssets

SpecChunks == Init /\ [][NextChunks]_vars

\* FairRun: run() on a fresh instance, where no network or file system call
\* hangs
RunSteps ==
  \/ BranchSettles
  \/ exportAssetsList
  \/ downloadAsset
  \/ writeFailedAssets
  \/ RunSettles

NextRun == RunCalled \/ RunSteps

FairRun == Init /\ [][NextRun]_vars /\ WF_vars(RunSteps)

(***************************************************************************)
(* Properties.                                                             *)
(***************************************************************************)
\* the downloads of the list that were written, and those that failed
Written == {k \in DOMAIN task : task[k] = "written"}
Failed == {k \in DOMAIN task : task[k] = "failed"}

\* C1: when an invocation of downloadAssets over a list of N assets has
\* finished, the assets written plus the length of the failed-asset sequence
\* is N, every entry of the sequence is a descriptor of the list, a failed
\* download has contributed one entry, and the logged success count is the
\* number of assets written.
C1_EveryAssetAccounted ==
  dl.pc = "done" =>
    /\ Cardinality(Written) + Len(failedAssets) = Len(dl.assets)
    /\ \A n \in 1..Len(failedAssets) : failedAssets[n] \in Range(dl.assets)
    /\ Len(failedAssets) = Cardinality(Failed)
    /\ dl.logged => dl.successCount = Cardinality(Written)

\* C2: a failure of one asset download, in the derivation of its URL and
\* file name included, is contained: no downloadAsset promise is rejected,
\* a failed asset is in the failed-asset sequence, and when downloadAssets
\* has finished every asset of the list was attempted and the step after
\* the chunks has run.
C2_FailureContained ==
  /\ \A k \in DOMAIN task : task[k] # "rejected"
  /\ \A k \in Failed : dl.assets[k] \in Range(failedAssets)
  /\ (dl.pc = "done" /\ Len(dl.assets) > 0) =>
       /\ \A k \in DOMAIN task : task[k] \in {"written", "failed"}
       /\ dl.logged

\* the chunk (0-based) of position k of the list
ChunkOf(k) == (k - 1) \div BATCH_SIZE

\* C3: a list of N assets is processed in exactly ceil(N / 10) chunks in the
\* order of the list: at most 10 downloads are in flight, no download of a
\* chunk is started before every download of the chunks before it has
\* finished, and a finished invocation has gone through ceil(N / 10) chunks.
C3_ChunksInOrder ==
  /\ Cardinality({k \in DOMAIN task : task[k] = "inflight"}) <= BATCH_SIZE
  /\ \A k \in DOMAIN task : task[k] # "none" =>
       \A j \in DOMAIN task : ChunkOf(j) < ChunkOf(k) =>
         task[j] \in {"written", "failed"}
  /\ dl.pc = "done" =>
       dl.chunks = (Len(dl.assets) + BATCH_SIZE - 1) \div BATCH_SIZE

\* C4: after a run of downloadAssets over a non-empty list (no direct
\* downloadAsset call made, no write of the manifest failed): when the
\* failed-asset sequence is empty the run has written no failed-assets.json,
\* and when it is not the file was written once and holds the sequence.
C4_ManifestIffFailures ==
  (dl.pc = "done" /\ Len(dl.assets) > 0 /\ calls.direct = 0
     /\ ~dl.manifestFailed) =>
    IF failedAssets = <<>>
    THEN dl.manifests = 0 /\ ~failedJson.exists
    ELSE dl.manifests = 1 /\ failedJson.exists /\ failedJson.items = failedAssets

\* once a page request has returned a non-success status, the listing is
\* over: undefined returned, assets.json not written, the failed request the
\* last one issued, and the downloadAssets that awaited the list has
\* returned with no download started and no manifest written
ListingAborted ==
  ls.error = "status" =>
    /\ ls.pc = "done" /\ ls.ret = "undefined"
    /\ ~ls.wrote /\ ~assetsJson.exists
    /\ Len(ls.requests) = Len(ls.pages) + 1
    /\ ls.caller = "downloadAssets" =>
         /\ dl.pc = "done" /\ dl.ret = "undefined"
         /\ task = <<>> /\ dl.chunks = 0
         /\ dl.manifests = 0 /\ ~failedJson.exists

\* a step in which one download of the list fails appends that asset to the
\* failed-asset sequence and settles no other download of the list
AssetFailureIsLocal ==
  \A k \in DOMAIN task :
    (task[k] = "inflight" /\ dl'.assets = dl.assets /\ task'[k] = "failed") =>
      /\ failedAssets' = Append(failedAssets, dl.assets[k])
      /\ \A j \in DOMAIN task \ {k} :
           \/ task'[j] = task[j]
           \/ task[j] = "none" /\ task'[j] \in {"inflight", "rejected"}

\* C5: a non-success status of a page request, on the first page or on a
\* later one, aborts the listing as a whole (undefined returned, no
\* assets.json, no further request, and downloadAssets without a list starts
\* no download and writes no manifest), while the failure of one asset
\* download fails that asset alone.
C5_ListingAbortedAsAWhole == []ListingAborted /\ [][AssetFailureIsLocal]_vars

\* the listing failed on its second page, with the items of the first
\* accumulated, under a downloadAssets that awaited it
C5_SecondPageRefused ==
  /\ ls.error = "status" /\ ls.caller = "downloadAssets"
  /\ Len(ls.pages) = 1 /\ ls.pages[1].items # <<>>
  /\ dl.pc = "done"

\* the items of the pages received, in page order
PagesItems == Concat([n \in 1..Len(ls.pages) |-> ls.pages[n].items])

\* the first request carries no cursor, request n + 1 the cursor of page n
CursorsChained ==
  /\ ls.pc # "idle" => Len(ls.requests) >= 1 /\ ls.requests[1] = 0
  /\ Len(ls.requests) \in {Len(ls.pages), Len(ls.pages) + 1}
  /\ \A n \in 1..(Len(ls.requests) - 1) :
       ls.pages[n].cursor # 0 /\ ls.requests[n + 1] = ls.pages[n].cursor

\* the listing is over and every page request was answered with a page
AllPagesServed == ls.pc = "done" /\ ls.error \notin {"status", "network"}

\* C6 as the specification states it: over k successful pages of which the
\* last alone has no cursor, exportAssetsList issues k requests with the
\* cursors chained, and returns and persists the concatenation of the items.
C6_ReturnsConcatenation ==
  /\ CursorsChained
  /\ AllPagesServed =>
       /\ Len(ls.requests) = Len(ls.pages)
       /\ ls.pages[Len(ls.pages)].cursor = 0
       /\ ls.ret = "items" /\ ls.items = PagesItems
       /\ assetsJson = [exists |-> TRUE, items |-> PagesItems]

\* C6: over k successful pages of which the last alone has no cursor,
\* exportAssetsList issues k requests with the cursors chained; when the
\* export root is created and assets.json written it returns and persists
\* the concatenation of the items, and when either fails it returns
\* undefined and persists nothing.
C6_Pagination ==
  /\ CursorsChained
  /\ AllPagesServed =>
       /\ Len(ls.requests) = Len(ls.pages)
       /\ ls.pages[Len(ls.pages)].cursor = 0
       /\ ls.error = "none" =>
            /\ ls.ret = "items" /\ ls.items = PagesItems
            /\ assetsJson = [exists |-> TRUE, items |-> PagesItems]
       /\ ls.error = "fs" =>
            /\ ls.ret = "undefined" /\ ~ls.wrote /\ ~assetsJson.exists

\* two pages with items were listed, returned and persisted
C6_TwoPagesListed ==
  /\ ls.pc = "done" /\ ls.ret = "items"
  /\ Len(ls.pages) = 2 /\ ls.pages[1].items # <<>> /\ ls.pages[2].items # <<>>
  /\ assetsJson.exists

\* C7: an exporter whose remote read returned an absent result or no item
\* logs a warning and nothing else, writes no file and returns no result.
C7_EmptyIsSkipped ==
  \A b \in Exporters :
    (ex[b].pc = "done" /\ ex[b].read \in {"absent", "empty"}) =>
      /\ ex[b].log = {"warn"}
      /\ ex[b].wrote = "none"
      /\ ex[b].ret = "undefined"

\* C8: when no network or file system call hangs, the Promise.all of run()
\* over its six branches is never rejected, whatever fails, run() logs
\* 'Backup completed', and it does so after the six branches have finished.
C8_RunCompletes ==
  /\ [](run.pc # "rejected")
  /\ [](run.pc = "completed" => \A b \in DOMAIN Tasks : Tasks[b] = "fulfilled")
  /\ (run.pc = "awaiting") ~> (run.pc = "completed")

\* run() has completed although downloads failed and the manifest of the
\* failures could not be written
C8_CompletedDespiteFailures ==
  /\ run.pc = "completed"
  /\ failedAssets # <<>>
  /\ dl.manifestFailed

\* C9: the failed-asset sequence is empty when downloadAssets is called, a
\* second time on the same instance and after direct downloadAsset calls
\* included, and it only grows by appends.
C9_OwnedByOneRun ==
  [][/\ calls'.methods = calls.methods + 1 => failedAssets = <<>>
     /\ Len(failedAssets') >= Len(failedAssets)
     /\ SubSeq(failedAssets', 1, Len(failedAssets)) = failedAssets]_vars

\* C10: within one run the downloads of two assets of the list write to
\* different paths, and the file of an asset that was written holds the body
\* of that asset.
C10_DistinctPaths ==
  calls.direct = 0 =>
    /\ \A j, k \in DOMAIN task :
         (dl.assets[j] # dl.assets[k]
            /\ ~Derived[dl.assets[j]].throws /\ ~Derived[dl.assets[k]].throws) =>
           Derived[dl.assets[j]].path # Derived[dl.assets[k]].path
    /\ \A k \in Written :
         assetFiles[Derived[dl.assets[k]].path] = assetUrl(dl.assets[k])

====
